---- MODULE Spec2Model ----
(***************************************************************************)
(* Verification model of the Global Brand Localizer core:                  *)
(*   - BatchProcessor   (src/src/batch_processor.py)                       *)
(*   - LocalizationAgent (src/src/localization_agent.py)                   *)
(* Spec      : one BatchProcessor, one batch call (sequential or parallel). *)
(* SpecMerge : LocalizationAgent.merge_configs over a small object heap.   *)
(***************************************************************************)
EXTENDS Integers, Sequences, FiniteSets, TLC

\* ---------------------------------------------------------------- bounds
\* Largest number of region JSONs handed to one batch call.
MaxJobs == 3
\* Largest max_concurrent given to the BatchProcessor constructor.
MaxConcurrent == 2

\* ---------------------------------------------------------------- state
VARIABLES
  max_concurrent,   \* BatchProcessor.max_concurrent
  mode,             \* "none" | "sequential" | "parallel": which batch call runs
  pc,               \* "idle" | "running" | "returned": position of the batch call
  region_jsons,     \* the submitted requests, in input order
  has_callback,     \* TRUE iff a progress_callback was supplied
  jobs,             \* self.jobs = result.jobs: the BatchJob list
  result,           \* the BatchResult counters
  cur,              \* sequential: index of the loop's current job
  jpc,              \* per job: "waiting" | "callback" | "execute" | "done"
  semaphore,        \* parallel: value of the asyncio.Semaphore
  executed,         \* per job: number of processor_func invocations
  cb_seen,          \* per job: the statuses the progress callback was shown
  heap,             \* LocalizationAgent: the Python objects, by address
  requests,         \* LocalizationAgent: the region JSONs merge_configs returned
  clock,            \* the second datetime.now() shows
  cjpc,             \* create_jobs: "idle" | "loop" | "returned"
  stamps,           \* create_jobs: per job built so far, the second it was built in
  lookup,           \* the last get_job_status call: whose id was asked, what came back
  om,               \* OutputManager: consistency_threshold and c2pa_verifier
  call,             \* save_dual_output: max_retries, master_image, the score computed
  opc,              \* save_dual_output: "idle" | the save under way | "audit" | "return" | "returned"
  attempt,          \* _save_with_retry: the loop variable
  outcomes,         \* per save: how each save_func invocation ended, in order
  success,          \* per save: what _save_with_retry returned
  finished,         \* the saves whose _save_with_retry call has returned
  consistency_score,   \* save_dual_output local
  flagged_for_review,  \* save_dual_output local
  c2pa_status,         \* save_dual_output local
  json_data,           \* the audit JSON handed to _save_json
  out_result,          \* the dict save_dual_output returns
  state_dir,        \* StateManager: the state files, by name
  saves,            \* the save_state calls so far: arguments and returned handle
  loaded,           \* the last load_state call: its handle and what it returned
  latest,           \* the last get_latest_state call: its argument and result
  log_file,         \* ErrorLogger: the lines of self.log_file
  log_calls,        \* the entries the log_error calls so far were made with
  recent,           \* the last get_recent_errors call: count and returned list
  region_configs,   \* process_regions: the region configs, by address, in input order
  pr_args,          \* process_regions: campaign_config and output_dir
  ppc,              \* process_regions: "idle" | "loop" | "returned"
  ridx,             \* process_regions: position of the for loop
  region_files,     \* process_regions: the region ids whose JSON file was written
  mappings,         \* SchemaSanitizer.mappings: per parameter type, the table
  raw,              \* _sanitize_value: the value argument
  sanitized,        \* _sanitize_value: what the call returned
  spc,              \* _sanitize_value: "idle" | "returned"
  images,           \* calculate_consistency_score: generated_image and master_image
  returned_score,   \* calculate_consistency_score: the score returned
  returned_heatmap, \* calculate_consistency_score: the heatmap returned
  scpc              \* calculate_consistency_score: "idle" | "returned"

batchVars == <<max_concurrent, mode, pc, region_jsons, has_callback, jobs,
               result, cur, jpc, semaphore, executed, cb_seen>>

mergeVars == <<heap, requests>>

jobIdVars == <<clock, cjpc, stamps, lookup>>

outputVars == <<om, call, opc, attempt, outcomes, success, finished,
                consistency_score, flagged_for_review, c2pa_status, json_data,
                out_result>>

stateVars == <<state_dir, saves, loaded, latest>>

logVars == <<log_file, log_calls, recent>>

regionsVars == <<region_configs, pr_args, ppc, ridx, region_files>>

sanitizerVars == <<mappings, raw, sanitized, spc>>

scoreVars == <<images, returned_score, returned_heatmap, scpc>>

\* the two pure computations: _sanitize_value and calculate_consistency_score
pureVars == <<sanitizerVars, scoreVars>>

nonBatchVars == <<mergeVars, jobIdVars, outputVars, stateVars, logVars, regionsVars,
                  pureVars>>

nonMergeVars == <<batchVars, jobIdVars, outputVars, stateVars, logVars, regionsVars,
                  pureVars>>

nonJobIdVars == <<max_concurrent, mode, pc, has_callback, result, cur, jpc,
                  semaphore, executed, cb_seen, mergeVars, outputVars, stateVars,
                  logVars, regionsVars, pureVars>>

nonOutputVars == <<batchVars, mergeVars, jobIdVars, stateVars, logVars, regionsVars,
                   pureVars>>

\* everything but the StateManager and the clock
nonStateVars == <<batchVars, mergeVars, cjpc, stamps, lookup, outputVars, logVars,
                  regionsVars, pureVars>>

nonLogVars == <<batchVars, mergeVars, jobIdVars, outputVars, stateVars, regionsVars,
                pureVars>>

\* everything but the LocalizationAgent
nonAgentVars == <<batchVars, jobIdVars, outputVars, stateVars, logVars, pureVars>>

\* everything but the two pure computations
nonPureVars == <<batchVars, mergeVars, jobIdVars, outputVars, stateVars, logVars,
                 regionsVars>>

vars == <<batchVars, mergeVars, jobIdVars, outputVars, stateVars, logVars,
          regionsVars, pureVars>>

\* ---------------------------------------------------------------- batch data
\* JobStatus enum
PENDING == "pending"
IN_PROGRESS == "in_progress"
COMPLETED == "completed"
FAILED == "failed"
JobStatus == {PENDING, IN_PROGRESS, COMPLETED, FAILED}

\* Python's None
None == "None"

\* region ids carried by the requests' metadata
RegionIds == {"tokyo", "berlin", "fail_test_region"}

\* A region JSON, as far as the batch engine is concerned: its region id and
\* whether processor_func raises on it. As in the tests' mock generator,
\* processor_func raises on the region that is designed to fail.
RegionJsons ==
  {[region_id |-> r, should_fail |-> (r = "fail_test_region")] : r \in RegionIds}

\* what str(e) yields for the two sources of exceptions inside the try block
ExecuteError == "processor_func raised"
CallbackError == "progress_callback raised"

RECURSIVE SeqsUpTo(_, _)
SeqsUpTo(S, n) ==
  IF n = 0 THEN {<<>>}
  ELSE LET shorter == SeqsUpTo(S, n - 1)
       IN shorter \cup {Append(s, x) : s \in {t \in shorter : Len(t) = n - 1}, x \in S}

\* dataclass BatchJob with its defaults
BatchJob(job_id, region_id, region_json) ==
  [job_id |-> job_id, region_id |-> region_id, region_json |-> region_json,
   status |-> PENDING, result |-> None, error |-> None]

\* mutant of create_jobs: the job list is built back to front
create_jobs_reversed(rjs, now) ==
  [idx \in 1..Len(rjs) |->
     BatchJob(<<"job", rjs[Len(rjs) + 1 - idx].region_id, now[idx]>>,
              rjs[Len(rjs) + 1 - idx].region_id, rjs[Len(rjs) + 1 - idx])]

\* create_jobs: one job per region JSON, in input order; now[idx] is the clock
\* second datetime.now() shows when job idx is built
create_jobs(rjs, now) ==
  [idx \in 1..Len(rjs) |->
     BatchJob(<<"job", rjs[idx].region_id, now[idx]>>, rjs[idx].region_id, rjs[idx])]

\* the whole job list is built within one clock second
SameSecond(rjs) == [idx \in 1..Len(rjs) |-> 0]

\* BatchResult(total_jobs=len(jobs), completed=0, failed=0, jobs=jobs)
BatchResult(js) == [total_jobs |-> Len(js), completed |-> 0, failed |-> 0]

\* job.status = IN_PROGRESS
MarkInProgress(job) == [job EXCEPT !.status = IN_PROGRESS]

\* job.result = <returned value>; job.status = COMPLETED
MarkCompleted(job) == [job EXCEPT !.status = COMPLETED, !.result = "generated"]

\* mutant of MarkFailed: a failed job is put back in the queue
MarkFailedRequeues(job, e) == [job EXCEPT !.status = PENDING, !.error = e]

\* mutant of MarkFailed: the error message is not recorded
MarkFailedNoMessage(job, e) == [job EXCEPT !.status = FAILED]

\* job.status = FAILED; job.error = str(e)
MarkFailed(job, e) == [job EXCEPT !.status = FAILED, !.error = e]

\* mutant of CountCompleted: the update is computed from the counter's value at
\* the start of the batch, so concurrent completions overwrite each other
CountCompletedStale(r) == [r EXCEPT !.completed = 1]

\* result.completed += 1
CountCompleted(r) == [r EXCEPT !.completed = @ + 1]

\* mutant of CountFailed: a failure is not counted
CountFailedDropped(r) == r

\* result.failed += 1
CountFailed(r) == [r EXCEPT !.failed = @ + 1]

\* where the job goes after status = IN_PROGRESS: "if progress_callback:"
AfterStart == IF has_callback THEN "callback" ELSE "execute"

\* ---------------------------------------------------------------- batch: Init
\* no batch call has been made: self.jobs = []
BatchIdle ==
  /\ mode = "none"
  /\ pc = "idle"
  /\ region_jsons = <<>>
  /\ has_callback = FALSE
  /\ jobs = <<>>
  /\ result = [total_jobs |-> 0, completed |-> 0, failed |-> 0]
  /\ cur = 1
  /\ jpc = <<>>
  /\ semaphore = 0
  /\ executed = <<>>
  /\ cb_seen = <<>>

\* no LocalizationAgent object exists
MergeIdle ==
  /\ heap = <<>>
  /\ requests = <<>>

\* what get_job_status has returned so far: nothing
NoLookup == [job_id |-> <<>>, owner |-> 0, found |-> 0]

\* create_jobs has not been called on its own
JobIdIdle ==
  /\ clock = 0
  /\ cjpc = "idle"
  /\ stamps = <<>>
  /\ lookup = NoLookup

\* Optional[float] and Optional[Dict]: None, or a value
NoneScore == [is_none |-> TRUE, v |-> 0]
NoneC2PA == [is_none |-> TRUE, verified |-> FALSE, status |-> "None",
             signed_by_bria |-> FALSE]

\* the four saves of save_dual_output
Ops == {"heatmap", "tiff", "png", "json"}

\* save_dual_output has not been called
PersistIdle ==
  /\ opc = "idle"
  /\ attempt = 0
  /\ outcomes = [op \in Ops |-> <<>>]
  /\ success = [op \in Ops |-> FALSE]
  /\ finished = {}
  /\ consistency_score = NoneScore
  /\ flagged_for_review = FALSE
  /\ c2pa_status = NoneC2PA
  /\ json_data = <<>>
  /\ out_result = <<>>

\* no OutputManager exists
OutputIdle ==
  /\ om = [consistency_threshold |-> 0, c2pa_verifier |-> "None"]
  /\ call = [max_retries |-> 0, master_image |-> FALSE, score |-> 0]
  /\ PersistIdle

\* Optional[Dict] with string keys and values: None, or a set of <<key, value>>
NoneDict == [is_none |-> TRUE, d |-> {}]
Dict(d) == [is_none |-> FALSE, d |-> d]

\* Optional[Path]: None, or the name of a state file
NoneHandle == [is_none |-> TRUE, campaign_id |-> <<>>, timestamp |-> 0]

\* load_state and get_latest_state have not been called
NoLoad == [n |-> 0, handle |-> NoneHandle, data |-> <<>>]
NoLatest == [n |-> 0, campaign_id |-> <<>>, result |-> NoneHandle]

\* StateManager.__init__ on a fresh state_dir: no state file
StateIdle ==
  /\ state_dir = <<>>
  /\ saves = <<>>
  /\ loaded = NoLoad
  /\ latest = NoLatest

\* get_recent_errors has not been called
NoRecent == [called |-> FALSE, count |-> 0, errors |-> <<>>]

\* ErrorLogger.__init__ on a fresh log directory: no line in the day's file
LogIdle ==
  /\ log_file = <<>>
  /\ log_calls = <<>>
  /\ recent = NoRecent

\* process_regions has not been called
RegionsIdle ==
  /\ region_configs = <<>>
  /\ pr_args = [campaign_config |-> 0, output_dir |-> FALSE]
  /\ ppc = "idle"
  /\ ridx = 1
  /\ region_files = <<>>

\* no SchemaSanitizer was built and _sanitize_value has not been called
SanitizerIdle ==
  /\ mappings = <<>>
  /\ raw = <<>>
  /\ sanitized = <<>>
  /\ spc = "idle"

NoImage == [readable |-> FALSE, width |-> 0, height |-> 0, pixels |-> <<>>]
NoScore == [num |-> 0, den |-> 1]

\* calculate_consistency_score has not been called
ScoreIdle ==
  /\ images = [generated |-> NoImage, master |-> NoImage]
  /\ returned_score = NoScore
  /\ returned_heatmap = [width |-> 0, height |-> 0, pixels |-> <<>>]
  /\ scpc = "idle"

\* neither pure computation is in use
PureIdle == SanitizerIdle /\ ScoreIdle

Init ==
  /\ max_concurrent \in 0..MaxConcurrent
  /\ BatchIdle
  /\ MergeIdle
  /\ JobIdIdle
  /\ OutputIdle
  /\ StateIdle
  /\ LogIdle
  /\ RegionsIdle
  /\ PureIdle

\* the part both batch calls share: create_jobs and the BatchResult
StartBatch(m, rjs, cb) ==
  /\ pc = "idle"
  /\ mode' = m
  /\ pc' = "running"
  /\ region_jsons' = rjs
  /\ has_callback' = cb
  /\ jobs' = create_jobs(rjs, SameSecond(rjs))
  /\ result' = BatchResult(create_jobs(rjs, SameSecond(rjs)))
  /\ cur' = 1
  /\ jpc' = [i \in 1..Len(rjs) |-> "waiting"]
  /\ executed' = [i \in 1..Len(rjs) |-> 0]
  /\ cb_seen' = [i \in 1..Len(rjs) |-> <<>>]
  /\ UNCHANGED <<max_concurrent, nonBatchVars>>

\* ---------------------------------------------------------------- sequential
process_batch_sequential ==
  \E rjs \in SeqsUpTo(RegionJsons, MaxJobs), cb \in BOOLEAN :
    /\ StartBatch("sequential", rjs, cb)
    /\ UNCHANGED semaphore

\* for job in jobs: job.status = IN_PROGRESS
SeqStart ==
  /\ pc = "running" /\ mode = "sequential"
  /\ cur <= Len(jobs) /\ jpc[cur] = "waiting"
  /\ jobs' = [jobs EXCEPT ![cur] = MarkInProgress(@)]
  /\ jpc' = [jpc EXCEPT ![cur] = AfterStart]
  /\ UNCHANGED <<nonBatchVars, max_concurrent, mode, pc, region_jsons, has_callback, result,
                 cur, semaphore, executed, cb_seen>>

\* progress_callback(job) returns
SeqCallbackReturns ==
  /\ pc = "running" /\ mode = "sequential"
  /\ cur <= Len(jobs) /\ jpc[cur] = "callback"
  /\ cb_seen' = [cb_seen EXCEPT ![cur] = Append(@, jobs[cur].status)]
  /\ jpc' = [jpc EXCEPT ![cur] = "execute"]
  /\ UNCHANGED <<nonBatchVars, max_concurrent, mode, pc, region_jsons, has_callback, jobs,
                 result, cur, semaphore, executed>>

\* progress_callback(job) raises: the except branch runs
SeqCallbackRaises ==
  /\ pc = "running" /\ mode = "sequential"
  /\ cur <= Len(jobs) /\ jpc[cur] = "callback"
  /\ cb_seen' = [cb_seen EXCEPT ![cur] = Append(@, jobs[cur].status)]
  /\ jobs' = [jobs EXCEPT ![cur] = MarkFailed(@, CallbackError)]
  /\ result' = CountFailed(result)
  /\ jpc' = [jpc EXCEPT ![cur] = "done"]
  /\ cur' = cur + 1
  /\ UNCHANGED <<nonBatchVars, max_concurrent, mode, pc, region_jsons, has_callback,
                 semaphore, executed>>

\* job.result = processor_func(job.region_json) returns
SeqExecuteReturns ==
  /\ pc = "running" /\ mode = "sequential"
  /\ cur <= Len(jobs) /\ jpc[cur] = "execute"
  /\ ~jobs[cur].region_json.should_fail
  /\ executed' = [executed EXCEPT ![cur] = @ + 1]
  /\ jobs' = [jobs EXCEPT ![cur] = MarkCompleted(@)]
  /\ result' = CountCompleted(result)
  /\ jpc' = [jpc EXCEPT ![cur] = "done"]
  /\ cur' = cur + 1
  /\ UNCHANGED <<nonBatchVars, max_concurrent, mode, pc, region_jsons, has_callback,
                 semaphore, cb_seen>>

\* processor_func(job.region_json) raises: the except branch runs
SeqExecuteRaises ==
  /\ pc = "running" /\ mode = "sequential"
  /\ cur <= Len(jobs) /\ jpc[cur] = "execute"
  /\ jobs[cur].region_json.should_fail
  /\ executed' = [executed EXCEPT ![cur] = @ + 1]
  /\ jobs' = [jobs EXCEPT ![cur] = MarkFailed(@, ExecuteError)]
  /\ result' = CountFailed(result)
  /\ jpc' = [jpc EXCEPT ![cur] = "done"]
  /\ cur' = cur + 1
  /\ UNCHANGED <<nonBatchVars, max_concurrent, mode, pc, region_jsons, has_callback,
                 semaphore, cb_seen>>

\* the loop is exhausted: return result
SeqReturn ==
  /\ pc = "running" /\ mode = "sequential"
  /\ cur > Len(jobs)
  /\ pc' = "returned"
  /\ UNCHANGED <<nonBatchVars, max_concurrent, mode, region_jsons, has_callback, jobs, result,
                 cur, jpc, semaphore, executed, cb_seen>>

\* ---------------------------------------------------------------- parallel
\* semaphore = asyncio.Semaphore(self.max_concurrent)
NewSemaphore(n) == n

\* mutant of CanAcquire: the semaphore never blocks
CanAcquireAlways(s) == TRUE

\* "async with semaphore" may be entered
CanAcquire(s) == s > 0

process_batch_parallel ==
  \E rjs \in SeqsUpTo(RegionJsons, MaxJobs), cb \in BOOLEAN :
    /\ StartBatch("parallel", rjs, cb)
    /\ semaphore' = NewSemaphore(max_concurrent)

\* process_job(job): async with semaphore: job.status = IN_PROGRESS
ParStart(i) ==
  /\ pc = "running" /\ mode = "parallel"
  /\ jpc[i] = "waiting"
  /\ CanAcquire(semaphore)
  /\ semaphore' = semaphore - 1
  /\ jobs' = [jobs EXCEPT ![i] = MarkInProgress(@)]
  /\ jpc' = [jpc EXCEPT ![i] = AfterStart]
  /\ UNCHANGED <<nonBatchVars, max_concurrent, mode, pc, region_jsons, has_callback, result,
                 cur, executed, cb_seen>>

\* process_job(job): progress_callback(job) returns
ParCallbackReturns(i) ==
  /\ pc = "running" /\ mode = "parallel"
  /\ jpc[i] = "callback"
  /\ cb_seen' = [cb_seen EXCEPT ![i] = Append(@, jobs[i].status)]
  /\ jpc' = [jpc EXCEPT ![i] = "execute"]
  /\ UNCHANGED <<nonBatchVars, max_concurrent, mode, pc, region_jsons, has_callback, jobs,
                 result, cur, semaphore, executed>>

\* process_job(job): progress_callback(job) raises; except branch; semaphore released
ParCallbackRaises(i) ==
  /\ pc = "running" /\ mode = "parallel"
  /\ jpc[i] = "callback"
  /\ cb_seen' = [cb_seen EXCEPT ![i] = Append(@, jobs[i].status)]
  /\ jobs' = [jobs EXCEPT ![i] = MarkFailed(@, CallbackError)]
  /\ result' = CountFailed(result)
  /\ jpc' = [jpc EXCEPT ![i] = "done"]
  /\ semaphore' = semaphore + 1
  /\ UNCHANGED <<nonBatchVars, max_concurrent, mode, pc, region_jsons, has_callback, cur,
                 executed>>

\* process_job(job): await run_in_executor(processor_func) returns
ParExecuteReturns(i) ==
  /\ pc = "running" /\ mode = "parallel"
  /\ jpc[i] = "execute"
  /\ ~jobs[i].region_json.should_fail
  /\ executed' = [executed EXCEPT ![i] = @ + 1]
  /\ jobs' = [jobs EXCEPT ![i] = MarkCompleted(@)]
  /\ result' = CountCompleted(result)
  /\ jpc' = [jpc EXCEPT ![i] = "done"]
  /\ semaphore' = semaphore + 1
  /\ UNCHANGED <<nonBatchVars, max_concurrent, mode, pc, region_jsons, has_callback, cur,
                 cb_seen>>

\* process_job(job): await run_in_executor(processor_func) raises
ParExecuteRaises(i) ==
  /\ pc = "running" /\ mode = "parallel"
  /\ jpc[i] = "execute"
  /\ jobs[i].region_json.should_fail
  /\ executed' = [executed EXCEPT ![i] = @ + 1]
  /\ jobs' = [jobs EXCEPT ![i] = MarkFailed(@, ExecuteError)]
  /\ result' = CountFailed(result)
  /\ jpc' = [jpc EXCEPT ![i] = "done"]
  /\ semaphore' = semaphore + 1
  /\ UNCHANGED <<nonBatchVars, max_concurrent, mode, pc, region_jsons, has_callback, cur,
                 cb_seen>>

\* await asyncio.gather(...) is over: return result
ParReturn ==
  /\ pc = "running" /\ mode = "parallel"
  /\ \A i \in 1..Len(jobs) : jpc[i] = "done"
  /\ pc' = "returned"
  /\ UNCHANGED <<nonBatchVars, max_concurrent, mode, region_jsons, has_callback, jobs, result,
                 cur, jpc, semaphore, executed, cb_seen>>

Next ==
  \/ process_batch_sequential
  \/ SeqStart
  \/ SeqCallbackReturns
  \/ SeqCallbackRaises
  \/ SeqExecuteReturns
  \/ SeqExecuteRaises
  \/ SeqReturn
  \/ process_batch_parallel
  \/ \E i \in 1..Len(jobs) : ParStart(i)
  \/ \E i \in 1..Len(jobs) : ParCallbackReturns(i)
  \/ \E i \in 1..Len(jobs) : ParCallbackRaises(i)
  \/ \E i \in 1..Len(jobs) : ParExecuteReturns(i)
  \/ \E i \in 1..Len(jobs) : ParExecuteRaises(i)
  \/ ParReturn

Spec == Init /\ [][Next]_vars

\* The batch calls with a progress callback that never raises (or none).
NextQuietCallback ==
  \/ process_batch_sequential
  \/ SeqStart
  \/ SeqCallbackReturns
  \/ SeqExecuteReturns
  \/ SeqExecuteRaises
  \/ SeqReturn
  \/ process_batch_parallel
  \/ \E i \in 1..Len(jobs) : ParStart(i)
  \/ \E i \in 1..Len(jobs) : ParCallbackReturns(i)
  \/ \E i \in 1..Len(jobs) : ParExecuteReturns(i)
  \/ \E i \in 1..Len(jobs) : ParExecuteRaises(i)
  \/ ParReturn

SpecQuietCallback == Init /\ [][NextQuietCallback]_vars


\* ---------------------------------------------------------------- batch claims
Jobs == 1..Len(jobs)
\* the requests on which processor_func raises (the claim's set F)
DesignedToFail == {i \in 1..Len(region_jsons) : region_jsons[i].should_fail}
WithStatus(st) == {i \in Jobs : jobs[i].status = st}
Terminal(st) == st \in {COMPLETED, FAILED}

\* C2: a sequential batch in which a nonempty set F of requests makes
\* processor_func raise returns failed = |F| and completed = N - |F|, with
\* exactly the jobs of F FAILED and every other job COMPLETED.
C2_BatchIsolation ==
  (pc = "returned" /\ mode = "sequential" /\ DesignedToFail # {}) =>
    /\ result.failed = Cardinality(DesignedToFail)
    /\ result.completed = Len(region_jsons) - Cardinality(DesignedToFail)
    /\ WithStatus(FAILED) = DesignedToFail
    /\ WithStatus(COMPLETED) = Jobs \ DesignedToFail

\* C3: on every return of either batch call, total_jobs = completed + failed,
\* total_jobs is the number of requests submitted, and every job of the result
\* is COMPLETED or FAILED.
C3_FullAccounting ==
  pc = "returned" =>
    /\ result.total_jobs = result.completed + result.failed
    /\ result.total_jobs = Len(region_jsons)
    /\ Len(jobs) = Len(region_jsons)
    /\ \A i \in Jobs : Terminal(jobs[i].status)

C3_Witness ==
  /\ pc = "returned" /\ mode = "parallel"
  /\ Len(region_jsons) = MaxJobs
  /\ result.completed >= 1 /\ result.failed >= 1

\* C4: in both modes a job's status only ever goes PENDING -> IN_PROGRESS,
\* IN_PROGRESS -> COMPLETED or IN_PROGRESS -> FAILED; a COMPLETED or FAILED job
\* keeps its status for the rest of the batch call.
LegalTransition(a, b) ==
  \/ a = PENDING /\ b = IN_PROGRESS
  \/ a = IN_PROGRESS /\ b = COMPLETED
  \/ a = IN_PROGRESS /\ b = FAILED

C4_JobStateMachine ==
  [][pc = "running" =>
       /\ Len(jobs') = Len(jobs)
       /\ \A i \in Jobs :
            jobs'[i].status # jobs[i].status =>
              LegalTransition(jobs[i].status, jobs'[i].status)]_vars

C4_Witness ==
  /\ pc = "running" /\ mode = "parallel"
  /\ WithStatus(IN_PROGRESS) # {}
  /\ WithStatus(COMPLETED) # {} /\ WithStatus(FAILED) # {}

\* C5: during a parallel batch the number of IN_PROGRESS jobs never exceeds
\* max_concurrent.
C5_BoundedConcurrency ==
  mode = "parallel" => Cardinality(WithStatus(IN_PROGRESS)) <= max_concurrent

C5_Witness ==
  /\ mode = "parallel" /\ max_concurrent = MaxConcurrent
  /\ Cardinality(WithStatus(IN_PROGRESS)) = max_concurrent
  /\ WithStatus(PENDING) # {}

\* C6: when a parallel batch returns, completed is the number of COMPLETED jobs
\* and failed the number of FAILED jobs, whatever the interleaving.
C6_NoLostCounterUpdate ==
  (pc = "returned" /\ mode = "parallel") =>
    /\ result.completed = Cardinality(WithStatus(COMPLETED))
    /\ result.failed = Cardinality(WithStatus(FAILED))

C6_Witness ==
  /\ pc = "returned" /\ mode = "parallel" /\ max_concurrent >= 2
  /\ result.completed >= 2 /\ result.failed >= 1

\* C7: a raising progress callback does not change a job's outcome: once the
\* job is finished processor_func has been invoked for it and the job is FAILED
\* exactly when processor_func raised, COMPLETED otherwise.
C7_CallbackFailureHarmless ==
  \A i \in Jobs :
    jpc[i] = "done" =>
      /\ executed[i] = 1
      /\ jobs[i].status = IF i \in DesignedToFail THEN FAILED ELSE COMPLETED

\* C8: a supplied progress callback is invoked at every status change of a job:
\* once with the job IN_PROGRESS and once with it COMPLETED or FAILED.
C8_CallbackOnEveryTransition ==
  \A i \in Jobs :
    (has_callback /\ jpc[i] = "done") =>
      cb_seen[i] = <<IN_PROGRESS, jobs[i].status>>

\* C9: the sequential batch runs the jobs one at a time in input order: a job
\* leaves PENDING only when every earlier job is COMPLETED or FAILED, at most
\* one job is IN_PROGRESS, and jobs[i] is the job of the i-th request.
C9_StrictInputOrder ==
  mode = "sequential" =>
    /\ \A i, j \in Jobs :
         (i < j /\ jobs[j].status # PENDING) => Terminal(jobs[i].status)
    /\ Cardinality(WithStatus(IN_PROGRESS)) <= 1
    /\ Len(jobs) = Len(region_jsons)
    /\ \A i \in Jobs :
         /\ jobs[i].region_json = region_jsons[i]
         /\ jobs[i].region_id = region_jsons[i].region_id

C9_Witness ==
  /\ mode = "sequential" /\ Len(jobs) = MaxJobs
  /\ jobs[1].status = FAILED /\ jobs[2].status = IN_PROGRESS
  /\ jobs[MaxJobs].status = PENDING
  /\ region_jsons[1] # region_jsons[2]

\* C10: processor_func is invoked at most once per request; a job on which it
\* raised is FAILED with an error message recorded, every FAILED job has an
\* error message, and a COMPLETED job has none.
C10_AtMostOnceAndErrorRecorded ==
  \A i \in Jobs :
    /\ executed[i] <= 1
    /\ (executed[i] = 1 /\ i \in DesignedToFail) =>
         (jobs[i].status = FAILED /\ jobs[i].error # None)
    /\ jobs[i].status = FAILED => jobs[i].error # None
    /\ jobs[i].status = COMPLETED => (jobs[i].error = None /\ executed[i] = 1)
    /\ jpc[i] = "done" => Terminal(jobs[i].status)

C10_Witness ==
  /\ pc = "returned"
  /\ \E i, j \in Jobs :
       /\ jobs[i].status = FAILED /\ executed[i] = 1 /\ jobs[i].error = ExecuteError
       /\ jobs[j].status = COMPLETED


\* ---------------------------------------------------------------- termination
\* The event loop runs every task that can run, and every processor_func call
\* returns or raises: a step that stays possible is eventually taken.
SpecFair == Init /\ [][Next]_vars /\ WF_vars(Next)

\* C27: every process_batch_parallel call eventually returns its BatchResult,
\* for every max_concurrent the constructor accepts (0 included) and every list
\* of region JSONs.
C27_ParallelReturns == (mode = "parallel" /\ pc = "running") ~> (pc = "returned")

\* the same for a BatchProcessor with at least one worker slot
ParallelReturnsWithSlots ==
  (mode = "parallel" /\ pc = "running" /\ max_concurrent > 0) ~> (pc = "returned")

\* ================================================================ LocalizationAgent
\* Largest number of merge_configs calls made against the one master JSON.
MaxMerges == 2

\* ---------------------------------------------------------------- Python objects
\* A slot of a container holds a scalar or a reference to another container.
Scalar(v) == [t |-> "s", v |-> v, a |-> 0]
Ref(a) == [t |-> "r", v |-> "", a |-> a]
DictObj(f) == [kind |-> "dict", items |-> f]
ListObj(q) == [kind |-> "list", items |-> q]

Has(h, a, k) == k \in DOMAIN h[a].items
Get(h, a, k) == h[a].items[k]
\* d.get(k, default)
GetOr(h, a, k, default) == IF Has(h, a, k) THEN Get(h, a, k) ELSE default
\* d[k] = slot
SetItem(h, a, k, slot) ==
  [h EXCEPT ![a] = [kind |-> h[a].kind, items |-> (k :> slot) @@ h[a].items]]
\* mutant of Update: keys d already holds keep d's value
UpdateKeepsExisting(h, a, b) ==
  [h EXCEPT ![a] = [kind |-> h[a].kind, items |-> h[a].items @@ h[b].items]]
\* d.update(e): e's slots are stored in d as they are (no copy)
Update(h, a, b) ==
  [h EXCEPT ![a] = [kind |-> h[a].kind, items |-> h[b].items @@ h[a].items]]
\* isinstance(value, dict)
IsDict(h, slot) == slot.t = "r" /\ h[slot.a].kind = "dict"
\* Python truth value of a slot: None, "" and empty containers are false
Truthy(h, slot) ==
  IF slot.t = "s" THEN slot.v \notin {None, ""} ELSE DOMAIN h[slot.a].items # {}

\* the value a slot denotes, all the way down (what == compares in Python)
RECURSIVE DeepVal(_, _)
DeepVal(h, slot) ==
  IF slot.t = "s" THEN [k |-> "scalar", val |-> slot.v]
  ELSE [k |-> h[slot.a].kind,
        val |-> [x \in DOMAIN h[slot.a].items |-> DeepVal(h, h[slot.a].items[x])]]

Refs(obj) == {obj.items[x].a : x \in {y \in DOMAIN obj.items : obj.items[y].t = "r"}}

RECURSIVE ReachFrom(_, _, _)
ReachFrom(h, frontier, seen) ==
  IF frontier \subseteq seen THEN seen
  ELSE ReachFrom(h, UNION {Refs(h[a]) : a \in frontier}, seen \cup frontier)

\* the containers reachable from root, root included
Reachable(h, root) == ReachFrom(h, {root}, {})

\* mutant of deepcopy: copy.copy, only the outermost dict is new
shallowcopy(h, root) == [heap |-> Append(h, h[root]), root |-> Len(h) + 1]

\* copy.deepcopy(root): every reachable container is copied to a fresh address
deepcopy(h, root) ==
  LET R == Reachable(h, root)
      n == Len(h)
      NewAddr(a) == n + Cardinality({b \in R : b <= a})
      Old(i) == CHOOSE a \in R : NewAddr(a) = i
      CopyOf(obj) ==
        [kind |-> obj.kind,
         items |-> [x \in DOMAIN obj.items |->
                      IF obj.items[x].t = "r" THEN Ref(NewAddr(obj.items[x].a))
                      ELSE obj.items[x]]]
  IN [heap |-> [i \in 1..(n + Cardinality(R)) |->
                  IF i <= n THEN h[i] ELSE CopyOf(h[Old(i)])],
      root |-> NewAddr(root)]

\* ---------------------------------------------------------------- merge inputs
\* fixed addresses of the objects the caller built before the first merge
MasterAddr == 1
RegionAddr == 7
CampaignAddr == 13

Shapes == {"absent", "scalar", "dict"}

\* a dict that holds key k only when its slot is given
Entry(k, shape, scalar, dictAddr) ==
  IF shape = "absent" THEN <<>>
  ELSE IF shape = "scalar" THEN (k :> Scalar(scalar))
  ELSE (k :> Ref(dictAddr))

\* The master JSON (as PipelineManager builds it), one region config (as in
\* config/region_configs.py) and one campaign config, laid out on the heap.
\*   mL, mB: shape of the master's variable lighting / background_setting
\*   oL, oB, oP, oC: shape of the region's overrides of lighting,
\*     background_setting, photographic_characteristics and composition
\*     (the last two are keys of the master's locked_parameters)
\*   np, fe, re: the guardrails' negative_prompts, forbidden_elements and
\*     required_elements lists
InitialHeap(mL, mB, oL, oB, oP, oC, np, fe, re) ==
  << \* 1: master_json
     DictObj([version |-> Scalar("1.0"), metadata |-> Ref(2),
              locked_parameters |-> Ref(3), variable_parameters |-> Ref(5)]),
     \* 2: master_json["metadata"]
     DictObj([campaign_id |-> Scalar("campaign_1"), source_image |-> Scalar("watch.png")]),
     \* 3: master_json["locked_parameters"]
     DictObj([photographic_characteristics |-> Ref(4), composition |-> Scalar("centered")]),
     \* 4: locked photographic_characteristics
     DictObj([camera_angle |-> Scalar("eye_level"), lens_focal_length |-> Scalar("50mm")]),
     \* 5: master_json["variable_parameters"]
     DictObj(Entry("lighting", mL, "studio", 6)
             @@ Entry("background_setting", mB, "neutral", 6)),
     \* 6: variable lighting
     DictObj([conditions |-> Scalar("soft"), direction |-> Scalar("front")]),
     \* 7: region_config
     DictObj([region_id |-> Scalar("tokyo_subway"), display_name |-> Scalar("Tokyo Subway Poster"),
              locale |-> Scalar("ja-JP"), environment_overrides |-> Ref(8),
              cultural_context |-> Ref(11)]),
     \* 8: region_config["environment_overrides"]
     DictObj(Entry("lighting", oL, "neon", 9)
             @@ Entry("background_setting", oB, "subway", 9)
             @@ Entry("photographic_characteristics", oP, "macro", 10)
             @@ Entry("composition", oC, "dynamic", 10)),
     \* 9: override of lighting
     DictObj([conditions |-> Scalar("neon"), shadows |-> Scalar("minimal")]),
     \* 10: override of photographic_characteristics
     DictObj([camera_angle |-> Scalar("low_angle")]),
     \* 11: region_config["cultural_context"]
     DictObj([avoid_elements |-> Ref(12)]),
     \* 12: cultural_context["avoid_elements"]
     ListObj(<<Scalar("number_4")>>),
     \* 13: campaign_config
     DictObj([brand_guardrails |-> Ref(14)]),
     \* 14: campaign_config["brand_guardrails"]
     DictObj([negative_prompts |-> Ref(15), forbidden_elements |-> Ref(16),
              required_elements |-> Ref(17)]),
     \* 15, 16, 17: the three guardrail lists
     ListObj(np), ListObj(fe), ListObj(re) >>

\* ---------------------------------------------------------------- merge_configs
\* result["metadata"][...] = region_config.get(...): the four stamped fields
StampMetadata(h, md, region) ==
  LET h1 == SetItem(h, md, "region_id", GetOr(h, region, "region_id", Scalar(None)))
      h2 == SetItem(h1, md, "region_name", GetOr(h, region, "display_name", Scalar(None)))
      h3 == SetItem(h2, md, "locale", GetOr(h, region, "locale", Scalar(None)))
  IN SetItem(h3, md, "localized_at", Scalar("now"))

\* mutant of OverrideTarget: an override lands wherever the master keeps the key
OverrideTargetByKey(h, res, key) ==
  IF Has(h, Get(h, res, "locked_parameters").a, key)
  THEN Get(h, res, "locked_parameters").a
  ELSE Get(h, res, "variable_parameters").a

\* variable_params = result.get("variable_parameters", {}): the dict the
\* override of `key` is written to
OverrideTarget(h, res, key) == Get(h, res, "variable_parameters").a

\* one turn of "for key, value in environment_overrides.items()"
ApplyOverride(h, res, key, value) ==
  LET vp == OverrideTarget(h, res, key)
  IN IF Has(h, vp, key)
     THEN IF IsDict(h, value) /\ IsDict(h, Get(h, vp, key))
          THEN Update(h, Get(h, vp, key).a, value.a)
          ELSE SetItem(h, vp, key, value)
     ELSE SetItem(h, vp, key, value)

\* the whole loop over environment_overrides
RECURSIVE ApplyOverrides(_, _, _, _)
ApplyOverrides(h, res, ov, keys) ==
  IF keys = {} THEN h
  ELSE LET key == CHOOSE x \in keys : TRUE
       IN ApplyOverrides(ApplyOverride(h, res, key, Get(h, ov, key)), res, ov,
                         keys \ {key})

\* mutant of apply_brand_guardrails: the negative prompts are not attached
apply_brand_guardrails_flags_only(h, res, campaign) ==
  IF ~Has(h, campaign, "brand_guardrails") THEN h
  ELSE
    LET g == Get(h, campaign, "brand_guardrails").a
        md == Get(h, res, "metadata").a
        Guard(k) == Has(h, g, k) /\ Truthy(h, Get(h, g, k))
        h2 == IF Guard("forbidden_elements")
              THEN SetItem(h, md, "forbidden_elements", Get(h, g, "forbidden_elements"))
              ELSE h
    IN IF Guard("required_elements")
       THEN SetItem(h2, md, "required_elements", Get(h, g, "required_elements"))
       ELSE h2

\* _apply_brand_guardrails(region_json, campaign_config)
apply_brand_guardrails(h, res, campaign) ==
  IF ~Has(h, campaign, "brand_guardrails") THEN h
  ELSE
    LET g == Get(h, campaign, "brand_guardrails").a
        md == Get(h, res, "metadata").a
        Guard(k) == Has(h, g, k) /\ Truthy(h, Get(h, g, k))
        h1 == IF Guard("negative_prompts")
              THEN SetItem(h, res, "negative_prompts", Get(h, g, "negative_prompts"))
              ELSE h
        h2 == IF Guard("forbidden_elements")
              THEN SetItem(h1, md, "forbidden_elements", Get(h, g, "forbidden_elements"))
              ELSE h1
    IN IF Guard("required_elements")
       THEN SetItem(h2, md, "required_elements", Get(h, g, "required_elements"))
       ELSE h2

\* merge_configs(master_json, region_config, campaign_config); campaign = 0
\* stands for campaign_config=None. Yields the heap after the call and the
\* address of the returned dict.
merge_configs(h, master, region, campaign) ==
  LET c == deepcopy(h, master)
      res == c.root
      md == Get(c.heap, res, "metadata").a
      h1 == StampMetadata(c.heap, md, region)
      ov == GetOr(h1, region, "environment_overrides", Ref(0))
      h2 == IF ov.a = 0 THEN h1
            ELSE ApplyOverrides(h1, res, ov.a, DOMAIN h1[ov.a].items)
      h3 == IF campaign # 0 /\ Truthy(h2, Ref(campaign))
            THEN apply_brand_guardrails(h2, res, campaign)
            ELSE h2
      cc == GetOr(h3, region, "cultural_context", Ref(0))
      h4 == IF cc.a = 0
            THEN SetItem(Append(h3, DictObj(<<>>)), md, "cultural_context",
                         Ref(Len(h3) + 1))
            ELSE SetItem(h3, md, "cultural_context", cc)
  IN [heap |-> h4, root |-> res]

\* ---------------------------------------------------------------- SpecMerge
GuardrailLists(a, b) == {<<>>, <<Scalar(a), Scalar(b)>>}

InitMerge ==
  /\ \E mL, oL \in Shapes, mB, oB, oC \in Shapes \ {"dict"}, oP \in Shapes \ {"scalar"},
        np \in GuardrailLists("blurry", "watermark"),
        fe \in GuardrailLists("alcohol", "weapons"),
        re \in GuardrailLists("logo", "tagline") :
       heap = InitialHeap(mL, mB, oL, oB, oP, oC, np, fe, re)
  /\ requests = <<>>
  /\ max_concurrent = 0
  /\ BatchIdle
  /\ JobIdIdle
  /\ OutputIdle
  /\ StateIdle
  /\ LogIdle
  /\ RegionsIdle
  /\ PureIdle

\* agent.merge_configs(master_json, region_config, campaign_config)
MergeCall(campaign) ==
  /\ Len(requests) < MaxMerges
  /\ LET m == merge_configs(heap, MasterAddr, RegionAddr, campaign)
     IN /\ heap' = m.heap
        /\ requests' = Append(requests,
             [root |-> m.root, campaign |-> campaign,
              master_locked |-> DeepVal(heap, Get(heap, MasterAddr, "locked_parameters"))])
  /\ UNCHANGED nonMergeVars

MergeWithoutGuardrails == MergeCall(0)

MergeWithGuardrails == MergeCall(CampaignAddr)

NextMerge ==
  \/ MergeWithoutGuardrails
  \/ MergeWithGuardrails

SpecMerge == InitMerge /\ [][NextMerge]_vars

\* ---------------------------------------------------------------- SpecEdit
\* The caller changes a region JSON it got back from merge_configs, in place.
Edited == Scalar("edited")

\* request["variable_parameters"]["lighting"]["conditions"] = "edited"
EditVariable ==
  \E r \in 1..Len(requests) :
    LET vp == Get(heap, requests[r].root, "variable_parameters").a
    IN /\ Has(heap, vp, "lighting")
       /\ IsDict(heap, Get(heap, vp, "lighting"))
       /\ GetOr(heap, Get(heap, vp, "lighting").a, "conditions", Scalar(None)) # Edited
       /\ heap' = SetItem(heap, Get(heap, vp, "lighting").a, "conditions", Edited)
       /\ UNCHANGED <<nonMergeVars, requests>>

\* request["metadata"]["cultural_context"]["color_preferences"] = "edited"
EditCulturalContext ==
  \E r \in 1..Len(requests) :
    LET cc == Get(heap, Get(heap, requests[r].root, "metadata").a, "cultural_context").a
    IN /\ GetOr(heap, cc, "color_preferences", Scalar(None)) # Edited
       /\ heap' = SetItem(heap, cc, "color_preferences", Edited)
       /\ UNCHANGED <<nonMergeVars, requests>>

\* request["negative_prompts"].append("edited")
EditNegativePrompts ==
  \E r \in 1..Len(requests) :
    /\ Has(heap, requests[r].root, "negative_prompts")
    /\ LET np == Get(heap, requests[r].root, "negative_prompts").a
       IN /\ \A i \in 1..Len(heap[np].items) : heap[np].items[i] # Edited
          /\ heap' = [heap EXCEPT ![np] = ListObj(Append(heap[np].items, Edited))]
    /\ UNCHANGED <<nonMergeVars, requests>>

NextEdit ==
  \/ MergeWithoutGuardrails
  \/ MergeWithGuardrails
  \/ EditVariable
  \/ EditCulturalContext
  \/ EditNegativePrompts

SpecEdit == InitMerge /\ [][NextEdit]_vars

\* ---------------------------------------------------------------- merge claims
Requests == 1..Len(requests)
Overrides == Get(heap, RegionAddr, "environment_overrides").a
LockedOf(root) == DeepVal(heap, Get(heap, root, "locked_parameters"))

\* C1: the locked_parameters of every region JSON merge_configs returned are
\* deep-equal (same keys, same values, at every level) to the master's, with
\* or without guardrails and whatever keys the region's overrides carry.
C1_LockPreservation ==
  \A r \in Requests :
    /\ Has(heap, requests[r].root, "locked_parameters")
    /\ LockedOf(requests[r].root) = LockedOf(MasterAddr)
    /\ LockedOf(requests[r].root) = requests[r].master_locked

\* a merge with guardrails whose overrides name both locked keys and a variable key
C1_Witness ==
  /\ \E r \in Requests : requests[r].campaign = CampaignAddr
  /\ Has(heap, Overrides, "photographic_characteristics")
  /\ Has(heap, Overrides, "composition")
  /\ Has(heap, Overrides, "lighting")
  /\ \E r \in Requests :
       Has(heap, Get(heap, requests[r].root, "variable_parameters").a,
           "photographic_characteristics")

VariableOf(root) == Get(heap, root, "variable_parameters").a
KeysOf(a) == DOMAIN heap[a].items
Val(slot) == DeepVal(heap, slot)

\* C21: in every region JSON merge_configs returned, for every key k of the
\* region's environment_overrides: when the master's variable_parameters[k] and
\* the override are both dicts, the result's variable_parameters[k] holds every
\* sub-key of the override with the override's value and every other sub-key of
\* the master's dict with the master's value; otherwise it is the override
\* value. Keys of variable_parameters no override names keep the master's value.
C21_OverrideSemantics ==
  \A r \in Requests :
    LET mv == VariableOf(MasterAddr)
        rv == VariableOf(requests[r].root)
    IN /\ KeysOf(rv) = KeysOf(mv) \cup KeysOf(Overrides)
       /\ \A k \in KeysOf(Overrides) :
            LET o == Get(heap, Overrides, k)
                got == Get(heap, rv, k)
            IN IF k \in KeysOf(mv) /\ IsDict(heap, Get(heap, mv, k)) /\ IsDict(heap, o)
               THEN LET m == Get(heap, mv, k).a
                    IN /\ IsDict(heap, got)
                       /\ KeysOf(got.a) = KeysOf(m) \cup KeysOf(o.a)
                       /\ \A x \in KeysOf(o.a) :
                            Val(Get(heap, got.a, x)) = Val(Get(heap, o.a, x))
                       /\ \A x \in KeysOf(m) \ KeysOf(o.a) :
                            Val(Get(heap, got.a, x)) = Val(Get(heap, m, x))
               ELSE Val(got) = Val(o)
       /\ \A k \in KeysOf(mv) \ KeysOf(Overrides) :
            Val(Get(heap, rv, k)) = Val(Get(heap, mv, k))

\* a merge of a dict override into a dict (lighting: conditions overridden,
\* direction kept, shadows added) next to a direct replacement
\* (background_setting) 
C21_Witness ==
  /\ Requests # {}
  /\ Has(heap, VariableOf(MasterAddr), "lighting")
  /\ IsDict(heap, Get(heap, VariableOf(MasterAddr), "lighting"))
  /\ Has(heap, Overrides, "lighting")
  /\ IsDict(heap, Get(heap, Overrides, "lighting"))
  /\ Has(heap, VariableOf(MasterAddr), "background_setting")
  /\ Has(heap, Overrides, "background_setting")
  /\ \E r \in Requests :
       LET rv == VariableOf(requests[r].root)
           lighting == Get(heap, rv, "lighting").a
       IN /\ Get(heap, lighting, "conditions") = Scalar("neon")
          /\ Get(heap, lighting, "direction") = Scalar("front")
          /\ Get(heap, lighting, "shadows") = Scalar("minimal")
          /\ Get(heap, rv, "background_setting") = Scalar("subway")

Guardrails == Get(heap, CampaignAddr, "brand_guardrails").a
\* d.get(k, []): the elements of the list d holds under k
ListOf(a, k) == IF Has(heap, a, k) THEN heap[Get(heap, a, k).a].items ELSE <<>>
MetadataOf(root) == Get(heap, root, "metadata").a
Flags == {"forbidden_elements", "required_elements"}

\* C22: a region JSON merged with guardrails carries the guardrails'
\* negative_prompts (same prompts, same order; a JSON without the key reads as
\* the empty list), every forbidden and required element of the guardrails is
\* in its metadata, and the rest of it is what the merge without guardrails
\* yields: guardrails reject and alter nothing.
C22_GuardrailsAttached ==
  \A r \in Requests :
    requests[r].campaign = CampaignAddr =>
      LET root == requests[r].root
          md == MetadataOf(root)
          plain == merge_configs(heap, MasterAddr, RegionAddr, 0)
          pmd == Get(plain.heap, plain.root, "metadata").a
      IN /\ ListOf(root, "negative_prompts") = ListOf(Guardrails, "negative_prompts")
         /\ \A k \in Flags :
              \A i \in 1..Len(ListOf(Guardrails, k)) :
                \E j \in 1..Len(ListOf(md, k)) :
                  ListOf(md, k)[j] = ListOf(Guardrails, k)[i]
         /\ KeysOf(root) \ {"negative_prompts"} = DOMAIN plain.heap[plain.root].items
         /\ \A k \in {"version", "locked_parameters", "variable_parameters"} :
              Val(Get(heap, root, k)) = DeepVal(plain.heap, Get(plain.heap, plain.root, k))
         /\ KeysOf(md) \ Flags = DOMAIN plain.heap[pmd].items
         /\ \A k \in KeysOf(md) \ Flags :
              Val(Get(heap, md, k)) = DeepVal(plain.heap, Get(plain.heap, pmd, k))

\* a merge with guardrails that carry two negative prompts, two forbidden and
\* two required elements
C22_Witness ==
  \E r \in Requests :
    /\ requests[r].campaign = CampaignAddr
    /\ ListOf(requests[r].root, "negative_prompts") = <<Scalar("blurry"), Scalar("watermark")>>
    /\ ListOf(MetadataOf(requests[r].root), "forbidden_elements")
         = <<Scalar("alcohol"), Scalar("weapons")>>
    /\ ListOf(MetadataOf(requests[r].root), "required_elements")
         = <<Scalar("logo"), Scalar("tagline")>>

\* the master JSON's content: metadata, locked_parameters and
\* variable_parameters at every nesting level
MasterValue == Val(Ref(MasterAddr))

\* C23: no merge_configs call (made directly or by process_regions) changes the
\* master JSON: its metadata, locked_parameters and variable_parameters are, at
\* every nesting level, the same after the call as before it.
C23_MasterUnchanged == [][MasterValue' = MasterValue]_vars

\* two merges that stamped metadata and merged a lighting override into the
\* copy, while the master still has its own lighting and no region_id
C23_Witness ==
  /\ Len(requests) = MaxMerges
  /\ \A r \in Requests :
       /\ Get(heap, MetadataOf(requests[r].root), "region_id") = Scalar("tokyo_subway")
       /\ Has(heap, VariableOf(requests[r].root), "lighting")
       /\ IsDict(heap, Get(heap, VariableOf(requests[r].root), "lighting"))
       /\ Get(heap, Get(heap, VariableOf(requests[r].root), "lighting").a, "conditions")
            = Scalar("neon")
  /\ ~Has(heap, MetadataOf(MasterAddr), "region_id")
  /\ Has(heap, VariableOf(MasterAddr), "lighting")
  /\ IsDict(heap, Get(heap, VariableOf(MasterAddr), "lighting"))
  /\ Get(heap, Get(heap, VariableOf(MasterAddr), "lighting").a, "conditions") = Scalar("soft")

RegionValue == Val(Ref(RegionAddr))
CampaignValue == Val(Ref(CampaignAddr))
RequestValue(r) == Val(Ref(requests[r].root))

\* C30: a region JSON shares no container with the region config or the
\* guardrails it was merged from: no step (a merge, or an in-place change of one
\* region JSON's variable_parameters, cultural context or negative_prompts)
\* changes the region config or the campaign config, and no step changes two
\* region JSONs at once.
C30_NoSharedContainers ==
  [][/\ RegionValue' = RegionValue
     /\ CampaignValue' = CampaignValue
     /\ \A r, q \in Requests :
          (r # q /\ RequestValue(r)' # RequestValue(r)) => RequestValue(q)' = RequestValue(q)]_vars

\* ---------------------------------------------------------------- job ids
\* Largest second the clock reaches while jobs are being created.
MaxClock == 2

\* get_job_status(job_id): the first job of self.jobs with that id (its index),
\* 0 for None
get_job_status(js, job_id) ==
  IF \E i \in 1..Len(js) : js[i].job_id = job_id
  THEN CHOOSE i \in 1..Len(js) :
         /\ js[i].job_id = job_id
         /\ \A k \in 1..(i - 1) : js[k].job_id # job_id
  ELSE 0

\* an id no job was created with
UnknownJobId == <<"job", "nowhere", 0>>

\* processor.create_jobs(region_jsons) is called: jobs = []
create_jobs_call ==
  \E rjs \in SeqsUpTo(RegionJsons, MaxJobs) :
    /\ cjpc = "idle"
    /\ pc = "idle"
    /\ cjpc' = "loop"
    /\ region_jsons' = rjs
    /\ stamps' = <<>>
    /\ lookup' = NoLookup
    /\ UNCHANGED <<nonJobIdVars, jobs, clock>>

\* one iteration of the loop: the job's id is stamped with the clock's second
CreateJob ==
  /\ cjpc = "loop"
  /\ Len(stamps) < Len(region_jsons)
  /\ stamps' = Append(stamps, clock)
  /\ UNCHANGED <<nonJobIdVars, region_jsons, jobs, clock, cjpc, lookup>>

\* a second passes
ClockTick ==
  /\ cjpc # "idle"
  /\ clock < MaxClock
  /\ clock' = clock + 1
  /\ UNCHANGED <<nonJobIdVars, region_jsons, jobs, cjpc, stamps, lookup>>

\* self.jobs = jobs; return jobs
create_jobs_return ==
  /\ cjpc = "loop"
  /\ Len(stamps) = Len(region_jsons)
  /\ jobs' = create_jobs(region_jsons, stamps)
  /\ cjpc' = "returned"
  /\ UNCHANGED <<nonJobIdVars, region_jsons, clock, stamps, lookup>>

\* the caller asks for the status of job i by that job's id
GetJobStatus ==
  \E i \in 1..Len(jobs) :
    /\ cjpc = "returned"
    /\ lookup' = [job_id |-> jobs[i].job_id, owner |-> i,
                  found |-> get_job_status(jobs, jobs[i].job_id)]
    /\ UNCHANGED <<nonJobIdVars, region_jsons, jobs, clock, cjpc, stamps>>

\* the caller asks for an id that was never handed out
GetJobStatusUnknown ==
  /\ cjpc = "returned"
  /\ lookup' = [job_id |-> UnknownJobId, owner |-> 0,
                found |-> get_job_status(jobs, UnknownJobId)]
  /\ UNCHANGED <<nonJobIdVars, region_jsons, jobs, clock, cjpc, stamps>>

NextCreateJobs ==
  \/ create_jobs_call
  \/ CreateJob
  \/ ClockTick
  \/ create_jobs_return
  \/ GetJobStatus
  \/ GetJobStatusUnknown

SpecCreateJobs == Init /\ [][NextCreateJobs]_vars

\* C11: the job ids of the jobs create_jobs built for one batch are pairwise
\* distinct, also when requests carry the same region_id, and get_job_status
\* asked for a job's id returns that very job.
C11_UniqueJobIds ==
  cjpc = "returned" =>
    /\ \A i, j \in Jobs : i # j => jobs[i].job_id # jobs[j].job_id
    /\ lookup.owner # 0 => lookup.found = lookup.owner

\* ---------------------------------------------------------------- OutputManager
\* Largest max_retries handed to save_dual_output.
MaxRetries == 2
\* Scores and thresholds are counted in steps of 1/MaxScore: 0 is 0.0 and
\* MaxScore is 1.0.
MaxScore == 3

\* what calculate_consistency_score returns when its try block raises: -1.0
ScoreError == 0 - MaxScore

\* what calculate_consistency_score can return
Scores == {ScoreError} \cup 0..MaxScore

\* consistency_threshold: "Maximum allowed difference (0.0-1.0)"
Thresholds == 0..MaxScore

Float(v) == [is_none |-> FALSE, v |-> v]

\* self.c2pa_verifier: None, a verifier without c2patool, a verifier with it
Verifiers == {"None", "no_c2patool", "c2patool"}

\* the status verify_image reports when c2patool ran
ToolStatuses == {"no_credentials", "parse_error", "verified",
                 "unverified_signer", "timeout", "error"}

\* extract_provenance_summary: the summary dict for one verify_image status
ProvenanceSummary(status) ==
  [is_none |-> FALSE, verified |-> (status = "verified"), status |-> status,
   signed_by_bria |-> (status = "verified")]

\* what save_dual_output's c2pa_status can be after "if self.c2pa_verifier and
\* tiff_success"
C2PAOutcomes(verifier, tiff_success) ==
  IF verifier # "None" /\ tiff_success
  THEN IF verifier = "no_c2patool"
       THEN {ProvenanceSummary("not_verified")}
       ELSE {ProvenanceSummary(st) : st \in ToolStatuses}
  ELSE {NoneC2PA}

\* mutant of ExceedsThreshold: a score equal to the threshold is flagged too
ExceedsThresholdOrEqual(score, threshold) == score >= threshold

\* if consistency_score > self.consistency_threshold
ExceedsThreshold(score, threshold) == score > threshold

\* the "status" expression of the audit's consistency_check section
ConsistencyStatus(score, threshold) ==
  IF ~score.is_none /\ score.v <= threshold THEN "passed"
  ELSE IF ~score.is_none THEN "flagged"
  ELSE "not_checked"

\* mutant of C2PASection: c2pa_status is stored as it is
C2PASectionRaw(status) ==
  IF status.is_none THEN <<>> ELSE status

\* "c2pa_credentials": c2pa_status if c2pa_status else {...}
C2PASection(status) ==
  IF ~status.is_none THEN status
  ELSE [status |-> "not_verified", message |-> "C2PA verification not performed"]

\* _create_audit_json: the sections that depend on the checks
create_audit_json(score, flagged, status) ==
  [consistency_check |->
     [score |-> score, threshold |-> om.consistency_threshold,
      flagged_for_review |-> flagged,
      status |-> ConsistencyStatus(score, om.consistency_threshold)],
   c2pa_credentials |-> C2PASection(status),
   output_files |-> [tiff_16bit |-> "16bit.tif", png_8bit |-> "8bit.png"]]

\* mutant of InRange: the loop runs once more
InRangeInclusive(a, max_retries) == a <= max_retries

\* for attempt in range(max_retries)
InRange(a, max_retries) == a < max_retries

\* the else branch of "if attempt < max_retries - 1"
LastAttempt(a, max_retries) == ~(a < max_retries - 1)

\* mutant of StageAfter: a save that failed ends the persist
StageAfterStopsOnFailure(op, ok) ==
  IF ~ok THEN "return"
  ELSE CASE op = "heatmap" -> "tiff"
         [] op = "tiff" -> "png"
         [] op = "png" -> "audit"
         [] op = "json" -> "return"

\* the statement save_dual_output runs next, once _save_with_retry returned ok
\* for the save op
StageAfter(op, ok) ==
  CASE op = "heatmap" -> "tiff"
    [] op = "tiff" -> "png"
    [] op = "png" -> "audit"
    [] op = "json" -> "return"

\* an OutputManager and the arguments of one save_dual_output call; score is
\* what calculate_consistency_score returns for the two images
InitOutput ==
  /\ max_concurrent = 0
  /\ BatchIdle
  /\ MergeIdle
  /\ JobIdIdle
  /\ StateIdle
  /\ LogIdle
  /\ RegionsIdle
  /\ om \in [consistency_threshold : Thresholds, c2pa_verifier : Verifiers]
  /\ call \in {[max_retries |-> r, master_image |-> m, score |-> sc] :
                 r \in 0..MaxRetries, m \in BOOLEAN, sc \in Scores}
  /\ call.master_image \/ call.score = 0
  /\ PersistIdle
  /\ PureIdle

\* save_dual_output up to its first _save_with_retry call: the consistency
\* check when a master image is given
save_dual_output_call ==
  /\ opc = "idle"
  /\ consistency_score' =
       IF call.master_image THEN Float(call.score) ELSE NoneScore
  /\ flagged_for_review' =
       (call.master_image /\ ExceedsThreshold(call.score, om.consistency_threshold))
  /\ opc' = IF call.master_image THEN "heatmap" ELSE "tiff"
  /\ UNCHANGED <<nonOutputVars, om, call, attempt, outcomes, success, finished,
                 c2pa_status, json_data, out_result>>

\* _save_with_retry returns r for the save under way
FinishOp(r) ==
  /\ success' = [success EXCEPT ![opc] = r]
  /\ finished' = finished \cup {opc}
  /\ opc' = StageAfter(opc, r)
  /\ attempt' = 0

\* save_func() returns: return True
SaveFuncReturns ==
  /\ opc \in Ops
  /\ InRange(attempt, call.max_retries)
  /\ outcomes' = [outcomes EXCEPT ![opc] = Append(@, "ok")]
  /\ FinishOp(TRUE)
  /\ UNCHANGED <<nonOutputVars, om, call, consistency_score, flagged_for_review,
                 c2pa_status, json_data, out_result>>

\* save_func() raises and attempts are left: time.sleep(2 ** attempt), next turn
SaveFuncRaisesRetry ==
  /\ opc \in Ops
  /\ InRange(attempt, call.max_retries)
  /\ ~LastAttempt(attempt, call.max_retries)
  /\ outcomes' = [outcomes EXCEPT ![opc] = Append(@, "error")]
  /\ attempt' = attempt + 1
  /\ UNCHANGED <<nonOutputVars, om, call, opc, success, finished, consistency_score,
                 flagged_for_review, c2pa_status, json_data, out_result>>

\* save_func() raises on the last attempt: return False
SaveFuncRaisesGiveUp ==
  /\ opc \in Ops
  /\ InRange(attempt, call.max_retries)
  /\ LastAttempt(attempt, call.max_retries)
  /\ outcomes' = [outcomes EXCEPT ![opc] = Append(@, "error")]
  /\ FinishOp(FALSE)
  /\ UNCHANGED <<nonOutputVars, om, call, consistency_score, flagged_for_review,
                 c2pa_status, json_data, out_result>>

\* the loop body never runs: the return False after the loop
SaveLoopEmpty ==
  /\ opc \in Ops
  /\ ~InRange(attempt, call.max_retries)
  /\ FinishOp(FALSE)
  /\ UNCHANGED <<nonOutputVars, om, call, outcomes, consistency_score,
                 flagged_for_review, c2pa_status, json_data, out_result>>

\* between the PNG save and the JSON save: C2PA verification when there is a
\* verifier and the TIFF was saved, then _create_audit_json
CreateAudit ==
  /\ opc = "audit"
  /\ \E st \in C2PAOutcomes(om.c2pa_verifier, success["tiff"]) :
       /\ c2pa_status' = st
       /\ json_data' = create_audit_json(consistency_score, flagged_for_review, st)
  /\ opc' = "json"
  /\ UNCHANGED <<nonOutputVars, om, call, attempt, outcomes, success, finished,
                 consistency_score, flagged_for_review, out_result>>

\* result = {...}; return result
save_dual_output_return ==
  /\ opc = "return"
  /\ out_result' =
       [tiff_saved |-> success["tiff"], png_saved |-> success["png"],
        json_saved |-> success["json"],
        heatmap_saved |-> (call.master_image /\ success["heatmap"]),
        all_saved |-> (success["tiff"] /\ success["png"] /\ success["json"]),
        consistency_score |-> consistency_score,
        flagged_for_review |-> flagged_for_review,
        c2pa_verified |-> (~c2pa_status.is_none /\ c2pa_status.verified),
        c2pa_status |-> c2pa_status]
  /\ opc' = "returned"
  /\ UNCHANGED <<nonOutputVars, om, call, attempt, outcomes, success, finished,
                 consistency_score, flagged_for_review, c2pa_status, json_data>>

NextOutput ==
  \/ save_dual_output_call
  \/ SaveFuncReturns
  \/ SaveFuncRaisesRetry
  \/ SaveFuncRaisesGiveUp
  \/ SaveLoopEmpty
  \/ CreateAudit
  \/ save_dual_output_return

SpecOutput == InitOutput /\ [][NextOutput]_vars

\* ---------------------------------------------------------------- output claims
Artifacts == {"tiff", "png", "json"}
Invocations(op) == Len(outcomes[op])
\* the last invocation of the save's save_func returned
Saved(op) == Invocations(op) >= 1 /\ outcomes[op][Invocations(op)] = "ok"
AuditCreated == opc \in {"json", "return", "returned"}

\* C12: _save_with_retry invokes save_func at most max_retries times, goes on
\* only after a failure and stops at the first success, returns True iff an
\* attempt succeeded and False only after max_retries failed attempts; the
\* error of save_func stays inside: the persist goes on to its next statement.
C12_SaveWithRetry ==
  \A op \in Ops :
    /\ Invocations(op) <= call.max_retries
    /\ \A k \in 1..(Invocations(op) - 1) : outcomes[op][k] = "error"
    /\ (op \notin finished /\ op # opc) => Invocations(op) = 0
    /\ op \in finished =>
         /\ success[op] <=> Saved(op)
         /\ ~success[op] => /\ Invocations(op) = call.max_retries
                            /\ \A k \in 1..Invocations(op) : outcomes[op][k] = "error"
         /\ opc \in Ops \cup {"audit", "return", "returned"}

\* one save succeeded on its second attempt, another failed max_retries times
C12_Witness ==
  /\ call.max_retries >= 2
  /\ \E op \in finished : success[op] /\ outcomes[op] = <<"error", "ok">>
  /\ \E op \in finished : ~success[op] /\ Invocations(op) = call.max_retries

\* C13: when save_dual_output returns, the TIFF, the PNG and the audit JSON
\* have each been attempted whatever became of the others, and the returned
\* dict reports each one's outcome on its own.
C13_IndependentSaves ==
  opc = "returned" =>
    /\ \A a \in Artifacts :
         /\ a \in finished
         /\ call.max_retries >= 1 => Invocations(a) >= 1
    /\ out_result.tiff_saved <=> Saved("tiff")
    /\ out_result.png_saved <=> Saved("png")
    /\ out_result.json_saved <=> Saved("json")

\* the TIFF exhausted its retries, the PNG and the audit JSON were saved
C13_Witness ==
  /\ opc = "returned"
  /\ call.max_retries >= 2
  /\ ~out_result.tiff_saved /\ Invocations("tiff") = call.max_retries
  /\ out_result.png_saved
  /\ out_result.json_saved

C15_AuditSections ==
  /\ AuditCreated =>
       /\ "consistency_check" \in DOMAIN json_data
       /\ "c2pa_credentials" \in DOMAIN json_data
       /\ "status" \in DOMAIN json_data.consistency_check
       /\ "status" \in DOMAIN json_data.c2pa_credentials
       /\ ~call.master_image => json_data.consistency_check.status = "not_checked"
       /\ (om.c2pa_verifier # "c2patool" \/ ~success["tiff"]) =>
            json_data.c2pa_credentials.status = "not_verified"
  /\ opc = "returned" => AuditCreated /\ "json" \in finished

\* a persist without master image and without verifier that saved its audit
C15_Witness ==
  /\ opc = "returned"
  /\ ~call.master_image
  /\ om.c2pa_verifier = "None"
  /\ json_data.consistency_check.status = "not_checked"
  /\ json_data.c2pa_credentials.status = "not_verified"
  /\ out_result.json_saved

\* C28: when the audit JSON of a call with a master image records status
\* "passed" with flagged_for_review false, a score within 0.0 .. 1.0 that does
\* not exceed the threshold was computed (not the value returned for a failed
\* computation), and the recorded score is always null or within 0.0 .. 1.0.
C28_PassedMeansScored ==
  AuditCreated =>
    LET check == json_data.consistency_check
    IN /\ (call.master_image /\ check.status = "passed" /\ ~check.flagged_for_review)
            => /\ ~check.score.is_none
               /\ check.score.v \in 0..MaxScore
               /\ check.score.v <= check.threshold
               /\ call.score # ScoreError
       /\ check.score.is_none \/ check.score.v \in 0..MaxScore

\* ---------------------------------------------------------------- StateManager
\* Largest number of save_state calls.
MaxSaves == 2

\* campaign ids, as the words an id is made of: "spring" and "spring_sale"
\* have states saved, "summer" is only asked for
SavedCampaigns == {<<"spring">>, <<"spring", "sale">>}
CampaignIds == SavedCampaigns \cup {<<"summer">>}

\* the words of campaign ids in string order
Alphabet == <<"sale", "spring", "summer">>
Rank(word) == CHOOSE i \in 1..Len(Alphabet) : Alphabet[i] = word

\* master JSONs and progress lists handed to save_state
MasterJsons == {[version |-> "1.0", iteration |-> i] : i \in 0..1}
Progresses == {[processed |-> <<>>, pending |-> <<"tokyo", "berlin">>],
               [processed |-> <<"tokyo">>, pending |-> <<"berlin">>]}

\* error_info arguments: not supplied (None), empty, with content
ErrorInfos == {NoneDict, Dict({}),
               Dict({<<"error_type", "GENERATION_ERROR">>, <<"failed_region", "berlin">>})}

\* state_file = self.state_dir / f"state_{campaign_id}_{timestamp}.json": the
\* timestamp has a fixed width, so campaign id and second determine the name
\* and the name determines them
StateFile(campaign_id, now) ==
  [is_none |-> FALSE, campaign_id |-> campaign_id, timestamp |-> now]

\* error_info or {}
OrEmptyDict(error_info) ==
  IF error_info.is_none \/ error_info.d = {} THEN Dict({}) ELSE error_info

\* the state_data dict of save_state
StateData(campaign_id, master_json, processed_regions, pending_regions, error_info, now) ==
  [version |-> "1.0",
   saved_at |-> now,
   campaign_id |-> campaign_id,
   master_json |-> master_json,
   progress |-> [total_regions |-> Len(processed_regions) + Len(pending_regions),
                 processed |-> Len(processed_regions),
                 pending |-> Len(pending_regions),
                 processed_regions |-> processed_regions,
                 pending_regions |-> pending_regions],
   error_info |-> OrEmptyDict(error_info),
   recovery_instructions |-> [message |-> "Use StateManager.load_state() to resume processing",
                              next_action |-> "Process pending_regions list"]]

\* json.dump(state_data, f): the file's text, one member per key, in the
\* dict's insertion order
json_dump(d) ==
  << <<"version", d.version>>, <<"saved_at", d.saved_at>>,
     <<"campaign_id", d.campaign_id>>, <<"master_json", d.master_json>>,
     <<"progress", d.progress>>, <<"error_info", d.error_info>>,
     <<"recovery_instructions", d.recovery_instructions>> >>

\* the value of a member of a JSON object text
Member(text, key) == text[CHOOSE i \in 1..Len(text) : text[i][1] = key][2]

\* json.load(f): the dict read back from the file's text
json_load(text) ==
  [version |-> Member(text, "version"),
   saved_at |-> Member(text, "saved_at"),
   campaign_id |-> Member(text, "campaign_id"),
   master_json |-> Member(text, "master_json"),
   progress |-> Member(text, "progress"),
   error_info |-> Member(text, "error_info"),
   recovery_instructions |-> Member(text, "recovery_instructions")]

\* open(state_file, 'w'): the file is created, or truncated and rewritten
WriteFile(dir, name, text) == (name :> text) @@ dir

\* a file name as the string comparison sees it: the words of the campaign id,
\* then the timestamp; digits sort before letters
NameKey(name) ==
  [i \in 1..(Len(name.campaign_id) + 1) |->
     IF i <= Len(name.campaign_id)
     THEN [digits |-> FALSE, n |-> Rank(name.campaign_id[i])]
     ELSE [digits |-> TRUE, n |-> name.timestamp]]

PartLess(x, y) ==
  \/ x.digits /\ ~y.digits
  \/ x.digits = y.digits /\ x.n < y.n

\* a < b for two file names
NameLess(a, b) ==
  LET ka == NameKey(a)
      kb == NameKey(b)
      m == IF Len(ka) < Len(kb) THEN Len(ka) ELSE Len(kb)
  IN \/ \E i \in 1..m : /\ \A j \in 1..(i - 1) : ka[j] = kb[j]
                        /\ PartLess(ka[i], kb[i])
     \/ Len(ka) < Len(kb) /\ \A j \in 1..m : ka[j] = kb[j]

\* sorted(names, reverse=True)
RECURSIVE SortedReverse(_)
SortedReverse(names) ==
  IF names = {} THEN <<>>
  ELSE LET top == CHOOSE a \in names : \A b \in names \ {a} : NameLess(b, a)
       IN <<top>> \o SortedReverse(names \ {top})

\* self.state_dir.glob(f"state_{campaign_id}_*.json"): the names that start
\* with "state_", the campaign id and "_"
Glob(dir, campaign_id) ==
  {name \in DOMAIN dir :
     /\ Len(campaign_id) <= Len(name.campaign_id)
     /\ \A i \in 1..Len(campaign_id) : name.campaign_id[i] = campaign_id[i]}

\* list_saved_states(campaign_id)
list_saved_states(dir, campaign_id) == SortedReverse(Glob(dir, campaign_id))

\* get_latest_state(campaign_id): states[0], or None
get_latest_state(dir, campaign_id) ==
  LET states == list_saved_states(dir, campaign_id)
  IN IF states # <<>> THEN states[1] ELSE NoneHandle

\* a StateManager on an empty state directory
InitState ==
  /\ max_concurrent = 0
  /\ BatchIdle
  /\ MergeIdle
  /\ JobIdIdle
  /\ OutputIdle
  /\ StateIdle
  /\ LogIdle
  /\ RegionsIdle
  /\ PureIdle

\* state_manager.save_state(campaign_id, master_json, processed_regions,
\* pending_regions, error_info) returns state_file
save_state ==
  \E c \in SavedCampaigns, m \in MasterJsons, p \in Progresses, e \in ErrorInfos :
    /\ Len(saves) < MaxSaves
    /\ LET state_file == StateFile(c, clock)
           text == json_dump(StateData(c, m, p.processed, p.pending, e, clock))
       IN /\ state_dir' = WriteFile(state_dir, state_file, text)
          /\ saves' = Append(saves,
               [campaign_id |-> c, master_json |-> m,
                processed_regions |-> p.processed, pending_regions |-> p.pending,
                error_info |-> e, handle |-> state_file, written |-> text])
    /\ loaded' = NoLoad
    /\ latest' = NoLatest
    /\ UNCHANGED <<nonStateVars, clock>>

\* state_manager.load_state(state_file) on an existing file
load_state ==
  \E state_file \in DOMAIN state_dir :
    /\ loaded' = [n |-> Len(saves), handle |-> state_file,
                  data |-> json_load(state_dir[state_file])]
    /\ UNCHANGED <<nonStateVars, clock, state_dir, saves, latest>>

\* state_manager.get_latest_state(campaign_id)
GetLatestState ==
  \E c \in CampaignIds :
    /\ latest' = [n |-> Len(saves), campaign_id |-> c,
                  result |-> get_latest_state(state_dir, c)]
    /\ UNCHANGED <<nonStateVars, clock, state_dir, saves, loaded>>

\* a second passes between two calls
SecondPasses ==
  /\ clock < MaxClock
  /\ clock' = clock + 1
  /\ UNCHANGED <<nonStateVars, stateVars>>

NextState ==
  \/ save_state
  \/ load_state
  \/ GetLatestState
  \/ SecondPasses

SpecState == InitState /\ [][NextState]_vars

\* ---------------------------------------------------------------- state claims
Saves == 1..Len(saves)

\* C16: load_state of the handle a save_state call returned yields the
\* campaign id, master JSON, processed and pending lists with their counts,
\* total = processed + pending, and the error_info that call was given, also
\* when error_info was not supplied.
C16_RoundTrip ==
  (loaded.n >= 1 /\ loaded.handle = saves[loaded.n].handle) =>
    LET a == saves[loaded.n]
        d == loaded.data
    IN /\ d.campaign_id = a.campaign_id
       /\ d.master_json = a.master_json
       /\ d.progress.processed_regions = a.processed_regions
       /\ d.progress.pending_regions = a.pending_regions
       /\ d.progress.processed = Len(a.processed_regions)
       /\ d.progress.pending = Len(a.pending_regions)
       /\ d.progress.total_regions = Len(a.processed_regions) + Len(a.pending_regions)
       /\ d.error_info = a.error_info

\* C17: the save_state calls returned pairwise different handles, every
\* snapshot still holds what its call wrote, and the store holds one file per
\* call.
C17_SnapshotsImmutable ==
  /\ \A i, j \in Saves : i < j => saves[i].handle # saves[j].handle
  /\ \A i \in Saves :
       /\ saves[i].handle \in DOMAIN state_dir
       /\ state_dir[saves[i].handle] = saves[i].written
  /\ Cardinality(DOMAIN state_dir) = Len(saves)

\* C18: get_latest_state(c) returns the handle of the last save_state call for
\* campaign c, and None when no save_state call was for c.
C18_LatestIsMostRecent ==
  latest.campaign_id # <<>> =>
    LET mine == {i \in Saves : saves[i].campaign_id = latest.campaign_id}
    IN IF mine = {}
       THEN latest.result.is_none
       ELSE latest.result = saves[CHOOSE i \in mine : \A k \in mine : k <= i].handle

\* the campaign_id stored in a state file
StoredCampaign(name) == json_load(state_dir[name]).campaign_id

\* C26: for every campaign id c, list_saved_states(c) lists only state files
\* whose stored campaign_id is c, and the file get_latest_state(c) returned is
\* one whose stored campaign_id is c, whatever campaigns have states saved
\* (one id may be another id followed by "_" and more).
C26_OnlyOwnCampaign ==
  /\ \A c \in CampaignIds :
       LET states == list_saved_states(state_dir, c)
       IN \A i \in 1..Len(states) : StoredCampaign(states[i]) = c
  /\ (latest.campaign_id # <<>> /\ ~latest.result.is_none)
       => StoredCampaign(latest.result) = latest.campaign_id

\* ---------------------------------------------------------------- ErrorLogger
\* Largest number of log_error calls.
MaxLogCalls == 2
\* Largest count handed to get_recent_errors.
MaxCount == 2

ErrorTypes == {"FILE_IO_ERROR", "VLM_BRIDGE_ERROR"}

\* Python objects json.dumps has no encoding for, by their repr
NotJsonSerializable == {"datetime.datetime(2025, 1, 1, 0, 0)"}

\* context arguments: None, a dict of strings, a dict holding a datetime
Contexts == {NoneDict,
             Dict({<<"region", "tokyo">>}),
             Dict({<<"region", "tokyo">>, <<"when", "datetime.datetime(2025, 1, 1, 0, 0)">>})}

\* the error_entry dict of log_error
ErrorEntry(error_type, context, now) ==
  [timestamp |-> now, error_type |-> error_type, severity |-> "ERROR",
   component |-> "pipeline", message |-> "failed",
   context |-> OrEmptyDict(context), recovery_action |-> "None"]

\* json.dumps(error_entry) raises TypeError
DumpsRaises(entry) == \E kv \in entry.context.d : kv[2] \in NotJsonSerializable

\* json.dumps(error_entry) + '\n' and json.loads(line)
json_dumps(entry) == <<"{", entry, "}">>
json_loads(line) == line[2]

\* lines[-count:] if len(lines) > count else lines
LastLines(lines, count) ==
  IF Len(lines) > count
  THEN IF count = 0 THEN lines
       ELSE SubSeq(lines, Len(lines) - count + 1, Len(lines))
  ELSE lines

\* an ErrorLogger whose log file does not exist yet
InitLog ==
  /\ max_concurrent = 0
  /\ BatchIdle
  /\ MergeIdle
  /\ JobIdIdle
  /\ OutputIdle
  /\ StateIdle
  /\ LogIdle
  /\ RegionsIdle
  /\ PureIdle

\* error_logger.log_error(error_type, component, message, context): the line
\* is appended, or json.dumps raises and the except branch only reports it
log_error ==
  \E error_type \in ErrorTypes, context \in Contexts :
    /\ Len(log_calls) < MaxLogCalls
    /\ LET error_entry == ErrorEntry(error_type, context, clock)
       IN /\ log_calls' = Append(log_calls, error_entry)
          /\ log_file' = IF DumpsRaises(error_entry)
                         THEN log_file
                         ELSE Append(log_file, json_dumps(error_entry))
    /\ UNCHANGED <<nonLogVars, recent>>

\* error_logger.get_recent_errors(count)
get_recent_errors ==
  \E count \in 0..MaxCount :
    /\ recent' = [called |-> TRUE, count |-> count,
                  errors |-> LET lines == LastLines(log_file, count)
                             IN [i \in 1..Len(lines) |-> json_loads(lines[i])]]
    /\ UNCHANGED <<nonLogVars, log_file, log_calls>>

NextLog ==
  \/ log_error
  \/ get_recent_errors

SpecLog == InitLog /\ [][NextLog]_vars

\* C19: the log holds exactly one line per log_error call, in call order, each
\* the entry of its call: every call appended one entry at the end and left the
\* earlier lines alone, and get_recent_errors changed nothing.
C19_AppendOnly ==
  /\ Len(log_file) = Len(log_calls)
  /\ \A i \in 1..Len(log_file) : json_loads(log_file[i]) = log_calls[i]

\* the count most recently appended entries of the log, in append order (all
\* of them when the log holds fewer)
MostRecent(lines, count) ==
  LET k == IF count < Len(lines) THEN count ELSE Len(lines)
  IN [i \in 1..k |-> json_loads(lines[Len(lines) - k + i])]

\* C29: every get_recent_errors(count) call, count >= 0, returns at most count
\* entries, and they are the count most recently appended entries of the log in
\* append order (all entries when the log holds fewer than count).
C29_RecentEntries ==
  [][recent' # recent =>
       /\ Len(recent'.errors) <= recent'.count
       /\ recent'.errors = MostRecent(log_file, recent'.count)]_vars

\* ---------------------------------------------------------------- process_regions
\* Largest number of region configs handed to process_regions.
MaxRegions == 3

\* region ids of config/region_configs.py, one per position of the list
RegionNames == <<"tokyo_subway", "berlin_billboard", "nyc_times_square",
                 "dubai_mall", "sydney_beach">>

\* a region config's environment_overrides: a dict, missing, or null
RegionKinds == {"overrides", "no_overrides", "null_overrides"}

\* the region config at position i of the list
RegionObj(i, kind) ==
  DictObj((IF kind = "overrides" THEN [environment_overrides |-> Ref(8)]
           ELSE IF kind = "null_overrides" THEN [environment_overrides |-> Scalar(None)]
           ELSE <<>>)
          @@ [region_id |-> Scalar(RegionNames[i]), display_name |-> Scalar("Poster"),
              locale |-> Scalar("ja-JP"), cultural_context |-> Ref(11)])

\* the master JSON, the shared override and guardrail objects, and after them
\* one region config per element of kinds
RECURSIVE AppendRegions(_, _, _)
AppendRegions(h, kinds, i) ==
  IF i > Len(kinds) THEN h
  ELSE AppendRegions(Append(h, RegionObj(i, kinds[i])), kinds, i + 1)

RegionsHeap(kinds) ==
  AppendRegions(InitialHeap("dict", "scalar", "dict", "scalar", "dict", "absent",
                            <<Scalar("blurry"), Scalar("watermark")>>,
                            <<Scalar("alcohol")>>, <<Scalar("logo")>>),
                kinds, 1)

\* the addresses first + 1 .. first + n, in order
RECURSIVE AddressList(_, _)
AddressList(first, n) ==
  IF n = 0 THEN <<>> ELSE Append(AddressList(first, n - 1), first + n)

\* merge_configs raises: environment_overrides.items() on a value that is not
\* a dict
merge_configs_raises(h, region) ==
  ~IsDict(h, GetOr(h, region, "environment_overrides", Ref(8)))

\* a LocalizationAgent, a master JSON and the arguments of one process_regions call
InitRegions ==
  /\ max_concurrent = 0
  /\ BatchIdle
  /\ JobIdIdle
  /\ OutputIdle
  /\ StateIdle
  /\ LogIdle
  /\ \E kinds \in SeqsUpTo(RegionKinds, MaxRegions) :
       /\ heap = RegionsHeap(kinds)
       /\ region_configs = AddressList(Len(heap) - Len(kinds), Len(kinds))
  /\ requests = <<>>
  /\ pr_args \in [campaign_config : {0, CampaignAddr}, output_dir : BOOLEAN]
  /\ ppc = "idle"
  /\ ridx = 1
  /\ region_files = <<>>
  /\ PureIdle

\* agent.process_regions(master_json, region_configs, campaign_config, output_dir)
process_regions_call ==
  /\ ppc = "idle"
  /\ ppc' = "loop"
  /\ UNCHANGED <<nonAgentVars, mergeVars, region_configs, pr_args, ridx, region_files>>

\* region_jsons.append(merge_configs(...)) for the loop's region
AppendMerged ==
  LET m == merge_configs(heap, MasterAddr, region_configs[ridx], pr_args.campaign_config)
  IN /\ heap' = m.heap
     /\ requests' = Append(requests,
          [root |-> m.root, campaign |-> pr_args.campaign_config,
           master_locked |-> DeepVal(heap, Get(heap, MasterAddr, "locked_parameters"))])

\* region_id = region_config.get("region_id", "unknown")
RegionIdOf(h, region) == GetOr(h, region, "region_id", Scalar("unknown")).v

\* mutant of AfterFailure: the first failure ends the loop
AfterFailureAborts(i, n) == n + 1

\* except Exception: ... continue
AfterFailure(i, n) == i + 1

\* one turn of the loop: merge_configs raises, the region is skipped
RegionMergeRaises ==
  /\ ppc = "loop" /\ ridx <= Len(region_configs)
  /\ merge_configs_raises(heap, region_configs[ridx])
  /\ ridx' = AfterFailure(ridx, Len(region_configs))
  /\ UNCHANGED <<nonAgentVars, mergeVars, region_configs, pr_args, ppc, region_files>>

\* one turn of the loop: region_jsons.append(region_json); with output_dir the
\* region JSON is then written to its file
RegionMerged ==
  /\ ppc = "loop" /\ ridx <= Len(region_configs)
  /\ ~merge_configs_raises(heap, region_configs[ridx])
  /\ AppendMerged
  /\ IF pr_args.output_dir
     THEN ppc' = "save" /\ ridx' = ridx
     ELSE ppc' = "loop" /\ ridx' = ridx + 1
  /\ UNCHANGED <<nonAgentVars, region_configs, pr_args, region_files>>

\* with open(region_file, 'w') as f: json.dump(region_json, f, ...)
RegionSaved ==
  /\ ppc = "save"
  /\ region_files' = Append(region_files, RegionIdOf(heap, region_configs[ridx]))
  /\ ridx' = ridx + 1
  /\ ppc' = "loop"
  /\ UNCHANGED <<nonAgentVars, mergeVars, region_configs, pr_args>>

\* writing the file raises, after the region JSON was appended
RegionSaveRaises ==
  /\ ppc = "save"
  /\ ridx' = AfterFailure(ridx, Len(region_configs))
  /\ ppc' = "loop"
  /\ UNCHANGED <<nonAgentVars, mergeVars, region_configs, pr_args, region_files>>

\* return region_jsons
process_regions_return ==
  /\ ppc = "loop" /\ ridx > Len(region_configs)
  /\ ppc' = "returned"
  /\ UNCHANGED <<nonAgentVars, mergeVars, region_configs, pr_args, ridx, region_files>>

NextRegions ==
  \/ process_regions_call
  \/ RegionMergeRaises
  \/ RegionMerged
  \/ RegionSaved
  \/ RegionSaveRaises
  \/ process_regions_return

SpecRegions == InitRegions /\ [][NextRegions]_vars

\* ---------------------------------------------------------------- regions claim
MergeSucceeds(region) == ~merge_configs_raises(heap, region)
RequestRegionId(r) == Get(heap, Get(heap, requests[r].root, "metadata").a, "region_id").v

\* C20: the list process_regions returns holds one region JSON for each region
\* config whose merge_configs call did not raise, in input order and nothing
\* else; a region whose merge raises is absent and the regions after it are
\* still merged.
C20_SkipFailedRegions ==
  ppc = "returned" =>
    LET merged == SelectSeq(region_configs, MergeSucceeds)
    IN /\ Len(requests) = Len(merged)
       /\ \A r \in 1..Len(requests) : RequestRegionId(r) = RegionIdOf(heap, merged[r])

\* three regions, the second one's merge raised, the other two were merged
C20_Witness ==
  /\ ppc = "returned"
  /\ Len(region_configs) = 3
  /\ MergeSucceeds(region_configs[1])
  /\ ~MergeSucceeds(region_configs[2])
  /\ MergeSucceeds(region_configs[3])
  /\ Len(requests) = 2
  /\ RequestRegionId(1) = RegionNames[1]
  /\ RequestRegionId(2) = RegionNames[3]

\* ================================================================ SchemaSanitizer
\* Longest raw value and largest mapping table examined.
MaxValueLen == 3
MaxTable == 2

\* A string is the sequence of its characters.
Strings == SeqsUpTo({"a", "b", "A", " "}, MaxValueLen)

\* str.lower()
LowerChar(c) == IF c = "A" THEN "a" ELSE c
RECURSIVE lower(_)
lower(str) == IF str = <<>> THEN <<>> ELSE <<LowerChar(Head(str))>> \o lower(Tail(str))

\* str.strip()
RECURSIVE lstrip(_)
lstrip(str) == IF str # <<>> /\ Head(str) = " " THEN lstrip(Tail(str)) ELSE str
RECURSIVE rstrip(_)
rstrip(str) ==
  IF str # <<>> /\ str[Len(str)] = " " THEN rstrip(SubSeq(str, 1, Len(str) - 1)) ELSE str
strip(str) == rstrip(lstrip(str))

\* "x in y" on two strings: x is a substring of y
In(x, y) == \E i \in 0..(Len(y) - Len(x)) : SubSeq(y, i + 1, i + Len(x)) = x

\* the entries a mapping table may hold: a lower-case key and a FIBO value
TableEntries ==
  [key : {<<"a">>, <<"a", "b">>, <<"b", "b">>, <<"b", " ", "a">>},
   value : {<<"x">>, <<"y">>}]

\* a JSON object as json.load yields it: entries in file order, keys distinct
Tables ==
  {t \in SeqsUpTo(TableEntries, MaxTable) :
     \A i, j \in 1..Len(t) : i # j => t[i].key # t[j].key}

\* self.mappings: with or without a table for camera_angle
Mappings == {<<>>} \cup {("camera_angle" :> t) : t \in Tables}

\* mutant of PartialMatch: only keys the value contains match
PartialMatchKeyInValue(table, normalized, value) ==
  LET hits == {i \in 1..Len(table) : In(table[i].key, normalized)}
  IN IF hits = {} THEN value
     ELSE table[CHOOSE i \in hits : \A j \in hits : i <= j].value

\* for key, fibo_value in self.mappings[parameter_type].items(): the first
\* entry whose key is in the value or holds the value; else the original value
RECURSIVE PartialMatch(_, _, _)
PartialMatch(table, normalized, value) ==
  IF table = <<>> THEN value
  ELSE IF In(Head(table).key, normalized) \/ In(normalized, Head(table).key)
       THEN Head(table).value
       ELSE PartialMatch(Tail(table), normalized, value)

\* _sanitize_value(value, parameter_type)
sanitize_value(m, value, parameter_type) ==
  IF parameter_type \notin DOMAIN m THEN value
  ELSE LET table == m[parameter_type]
           normalized == strip(lower(value))
           exact == {i \in 1..Len(table) : table[i].key = normalized}
       IN IF exact # {} THEN table[CHOOSE i \in exact : TRUE].value
          ELSE PartialMatch(table, normalized, value)

\* a SchemaSanitizer with its tables loaded, and a raw camera_angle
InitSanitizer ==
  /\ max_concurrent = 0
  /\ BatchIdle
  /\ MergeIdle
  /\ JobIdIdle
  /\ OutputIdle
  /\ StateIdle
  /\ LogIdle
  /\ RegionsIdle
  /\ ScoreIdle
  /\ mappings \in Mappings
  /\ raw \in Strings
  /\ sanitized = <<>>
  /\ spc = "idle"

\* photo["camera_angle"] = self._sanitize_value(photo["camera_angle"], "camera_angle")
sanitize_value_call ==
  /\ spc = "idle"
  /\ sanitized' = sanitize_value(mappings, raw, "camera_angle")
  /\ spc' = "returned"
  /\ UNCHANGED <<nonPureVars, scoreVars, mappings, raw>>

NextSanitizer == sanitize_value_call

SpecSanitizer == InitSanitizer /\ [][NextSanitizer]_vars

\* ---------------------------------------------------------------- sanitizer claim
CameraTable == IF "camera_angle" \in DOMAIN mappings THEN mappings["camera_angle"] ELSE <<>>
Normalized == strip(lower(raw))
ExactKeys == {i \in 1..Len(CameraTable) : CameraTable[i].key = Normalized}
PartialKeys ==
  {i \in 1..Len(CameraTable) :
     In(CameraTable[i].key, Normalized) \/ In(Normalized, CameraTable[i].key)}

MaxPixels == 2

\* An image after convert('RGB'): its size and its pixels, row by row. The
\* pixels are grey (R = G = B), one intensity each, so that the per-pixel
\* distance sqrt(3 * d^2) over sqrt(3 * 255^2) is exactly d / 255.
Levels == {0, 100, 255}
Sizes == {wh \in (1..MaxPixels) \X (1..MaxPixels) : wh[1] * wh[2] <= MaxPixels}
ReadableImages ==
  UNION {[readable : {TRUE}, width : {wh[1]}, height : {wh[2]},
          pixels : [1..(wh[1] * wh[2]) -> Levels]] : wh \in Sizes}
\* an image whose pixel data cannot be loaded: convert('RGB') raises
UnreadableImage == [readable |-> FALSE, width |-> 1, height |-> 1, pixels |-> <<>>]
Images == ReadableImages \cup {UnreadableImage}

Abs(x) == IF x < 0 THEN 0 - x ELSE x
RECURSIVE Sum(_)
Sum(q) == IF q = <<>> THEN 0 ELSE Head(q) + Sum(Tail(q))

\* cv2.resize(master_array, (width, height), INTER_LANCZOS4) when the shapes
\* differ: an array of the generated image's shape with values in 0..255. A
\* uniform master stays uniform; otherwise the interpolated values are left
\* open among the levels.
Resized(m, width, height) ==
  IF m.width = width /\ m.height = height THEN {m.pixels}
  ELSE IF \A i \in 1..Len(m.pixels) : m.pixels[i] = m.pixels[1]
       THEN {[i \in 1..(width * height) |-> m.pixels[1]]}
       ELSE [1..(width * height) -> Levels]

\* the try block: the mean of the normalised distances, as the fraction
\* num / den, and the heatmap (normalized_diff * 255).astype(np.uint8)
Scored(g, master_resized) ==
  LET n == g.width * g.height
      diff == [i \in 1..n |-> Abs(g.pixels[i] - master_resized[i])]
  IN [score |-> [num |-> Sum(diff), den |-> 255 * n],
      heatmap |-> [width |-> g.width, height |-> g.height,
                   pixels |-> [i \in 1..n |-> (diff[i] * 255) \div 255]]]

\* the except block: return -1.0, np.zeros((100, 100), dtype=np.uint8)
ScoreFailed ==
  [score |-> [num |-> 0 - 1, den |-> 1],
   heatmap |-> [width |-> 100, height |-> 100, pixels |-> [i \in 1..(100 * 100) |-> 0]]]

\* an OutputManager and the two images of one call
InitScore ==
  /\ max_concurrent = 0
  /\ BatchIdle
  /\ MergeIdle
  /\ JobIdIdle
  /\ OutputIdle
  /\ StateIdle
  /\ LogIdle
  /\ RegionsIdle
  /\ SanitizerIdle
  /\ images \in [generated : Images, master : Images]
  /\ returned_score = NoScore
  /\ returned_heatmap = [width |-> 0, height |-> 0, pixels |-> <<>>]
  /\ scpc = "idle"

\* calculate_consistency_score(generated_image, master_image): the try block
\* runs to its return
ScoreComputed ==
  /\ scpc = "idle"
  /\ images.generated.readable /\ images.master.readable
  /\ \E master_resized \in Resized(images.master, images.generated.width,
                                    images.generated.height) :
       /\ returned_score' = Scored(images.generated, master_resized).score
       /\ returned_heatmap' = Scored(images.generated, master_resized).heatmap
  /\ scpc' = "returned"
  /\ UNCHANGED <<nonPureVars, sanitizerVars, images>>

\* calculate_consistency_score(generated_image, master_image): a step of the
\* try block raises
ScoreRaises ==
  /\ scpc = "idle"
  /\ ~(images.generated.readable /\ images.master.readable)
  /\ returned_score' = ScoreFailed.score
  /\ returned_heatmap' = ScoreFailed.heatmap
  /\ scpc' = "returned"
  /\ UNCHANGED <<nonPureVars, sanitizerVars, images>>

NextScore ==
  \/ ScoreComputed
  \/ ScoreRaises

SpecScore == InitScore /\ [][NextScore]_vars

\* ---------------------------------------------------------------- score claim
Uniform(img, level) == \A i \in 1..Len(img.pixels) : img.pixels[i] = level
SameSize(a, b) == a.width = b.width /\ a.height = b.height

\* C25: for every image pair the score is within 0.0 .. 1.0, below 0.001 for
\* identical images and above 0.5 for pure black against pure white of the same
\* size, and the heatmap has the generated image's resolution and values in
\* 0..255.
C25_ScoreBounds ==
  scpc = "returned" =>
    LET g == images.generated
        m == images.master
    IN /\ 0 <= returned_score.num /\ returned_score.num <= returned_score.den
       /\ g = m => 1000 * returned_score.num < returned_score.den
       /\ (g.readable /\ m.readable /\ SameSize(g, m) /\ Uniform(g, 0) /\ Uniform(m, 255))
            => 2 * returned_score.num > returned_score.den
       /\ returned_heatmap.width = g.width /\ returned_heatmap.height = g.height
       /\ Len(returned_heatmap.pixels) = g.width * g.height
       /\ \A i \in 1..Len(returned_heatmap.pixels) : returned_heatmap.pixels[i] \in 0..255

\* the same statement for pairs of images whose pixel data can be read
ReadablePairsScoreBounds ==
  (images.generated.readable /\ images.master.readable) => C25_ScoreBounds

====
